---- MODULE Spec2Model ----
(***************************************************************************)
(* QDQ selectors of the graph optimizer (qdq_selectors.cc).                *)
(*                                                                         *)
(* A selector looks at one candidate node of the graph, collects its       *)
(* DequantizeLinear producers and QuantizeLinear consumers, runs the       *)
(* family's Check and, when it succeeds, packs the matched nodes into a    *)
(* NodesToOptimize record.                                                 *)
(*                                                                         *)
(* The graph is a value drawn in Init from a bounded family of graphs; the *)
(* selectors never change it.  Node identities are the NodeIndex values.   *)
(* A read through a null pointer ends the process (ret = "fault"); a read  *)
(* past the end of a vector may fault or deliver any node, so Check may    *)
(* then return either boolean.                                             *)
(***************************************************************************)
EXTENDS Integers, Sequences, FiniteSets, TLC

VARIABLES
  graph,          \* the Graph the selectors are run on
  selection,      \* the caller's std::unique_ptr<NodesToOptimize>& selection
  op,             \* the operation that ran last: "none", "Select", "CheckQDQNodes"
  selector,       \* the selector object of the last call
  cand,           \* the node argument of the last call
  num_dq_inputs,  \* the num_dq_inputs argument of the last CheckQDQNodes call
  dq_nodes,       \* the dq_nodes list of the last call
  q_nodes,        \* the q_nodes list of the last call
  ret,            \* what the last call returned: "none", "true", "false", "fault"
  ub,             \* the illegal read of the last call: "none", "null", "range"
  resolved        \* number of graph.GetNode resolutions done by the last call

vars == <<graph, selection, op, selector, cand, num_dq_inputs, dq_nodes, q_nodes,
          ret, ub, resolved>>

----------------------------------------------------------------------------
(* Bounds of the graph family. *)
MaxInputs == 3
MaxOutputs == 2

(* nullptr *)
Null == 0
(* num_dq_inputs = -1: derive the count from the node *)
DeriveCount == -1
(* ConvSelector::UpdateBuilder: input_nodes.resize(3) *)
ConvInputs == 3
(* NodesToOptimizeBuilder::num_input_defs left unset *)
NoInputDefs == -1
(* VariadicSelector::UpdateBuilder: num_input_defs = 1 *)
VariadicInputDefs == 1

DQOpName == "DequantizeLinear"
QOpName == "QuantizeLinear"

UINT8 == "uint8"
INT8 == "int8"
INT32 == "int32"

----------------------------------------------------------------------------
(* The graph family.  Nodes 1..3 are DequantizeLinear nodes reading uint8, *)
(* int8 and int32, nodes 4..5 are QuantizeLinear nodes writing uint8 and   *)
(* int8, nodes 6 and 7 are two operator nodes (the candidates).  Every     *)
(* operator node has at least one input slot and at least one output.      *)
DQIds == {1, 2, 3}
QIds == {4, 5}
Candidates == {6, 7}
NodeIds == DQIds \cup QIds \cup Candidates

AbsentSlot == [exists |-> FALSE, src |-> Null, srcArg |-> 0]
ExtSlot == [exists |-> TRUE, src |-> Null, srcArg |-> 0]
FromNode(n, o) == [exists |-> TRUE, src |-> n, srcArg |-> o]

(* what an input slot of node 6 may be: absent, fed from outside the      *)
(* matched neighbourhood, or fed by one of the DQ nodes                    *)
SlotChoices == {AbsentSlot, ExtSlot} \cup {FromNode(d, 1) : d \in DQIds}

InputLists == UNION {[1..k -> SlotChoices] : k \in 1..MaxInputs}

(* How the second operator node and the second Q node are wired:           *)
(* <<input of node 7, input of node 5>>.                                   *)
SharedDQ == <<FromNode(1, 1), FromNode(7, 1)>>
SharedDQSecondQ == <<FromNode(1, 1), FromNode(6, 1)>>
ExtraConsumer == <<FromNode(6, 1), ExtSlot>>
ExtraConsumerSecondQ == <<FromNode(6, 1), FromNode(6, 1)>>
Wirings == {SharedDQ, SharedDQSecondQ, ExtraConsumer, ExtraConsumerSecondQ}

MkGraph(ins, nout, q1src, w) ==
  [op |-> [n \in NodeIds |-> IF n \in DQIds THEN DQOpName
                             ELSE IF n \in QIds THEN QOpName ELSE "Op"],
   inputs |-> [n \in NodeIds |->
                 IF n \in DQIds THEN <<ExtSlot>>
                 ELSE IF n = 4 THEN <<IF q1src = 0 THEN ExtSlot ELSE FromNode(6, q1src)>>
                 ELSE IF n = 5 THEN <<w[2]>>
                 ELSE IF n = 6 THEN ins
                 ELSE <<w[1]>>],
   nout |-> [n \in NodeIds |-> IF n = 6 THEN nout ELSE 1],
   elem_type |-> [n \in NodeIds |->
                 IF n \in {1, 4} THEN UINT8
                 ELSE IF n \in {2, 5} THEN INT8 ELSE INT32],
   qparams |-> [n \in NodeIds |-> IF n \in {1, 3, 4} THEN "a" ELSE "b"]]

(* every input list on a single-output node, the Q nodes wired in all ways  *)
GraphsByInputs ==
  {MkGraph(ins, 1, q1src, w) :
     ins \in InputLists, q1src \in 0..1, w \in {SharedDQ, SharedDQSecondQ}}

(* every output count and wiring on a node with all inputs from one DQ     *)
GraphsByOutputs ==
  {MkGraph(ins, nout, q1src, w) :
     ins \in {<<FromNode(1, 1)>>, <<FromNode(1, 1), FromNode(1, 1)>>},
     nout \in 1..MaxOutputs,
     q1src \in 0..MaxOutputs,
     w \in Wirings}

Graphs == GraphsByInputs \cup GraphsByOutputs

WellFormed(g) ==
  \A n \in NodeIds : \A i \in DOMAIN g.inputs[n] :
    g.inputs[n][i].src # Null => g.inputs[n][i].srcArg \in 1..g.nout[g.inputs[n][i].src]

----------------------------------------------------------------------------
(* Graph queries. *)

(* Node::Index and Graph::GetNode *)
Index(n) == n
GetNode(g, idx) == IF idx \in DOMAIN g.op THEN idx ELSE Null

(* the output edges of a node: one per consuming input slot *)
OutputEdges(g, n) ==
  UNION {{[dst |-> c, dstArg |-> i, srcArg |-> g.inputs[c][i].srcArg] :
            i \in {j \in DOMAIN g.inputs[c] :
                     g.inputs[c][j].exists /\ g.inputs[c][j].src = n}} :
           c \in DOMAIN g.inputs}

NumActualInputs(g, n) ==
  Cardinality({i \in DOMAIN g.inputs[n] : g.inputs[n][i].exists})

(* graph_utils::FindParentsByType: per input slot the producer of that type, else null *)
FindParentsByType(g, n, type) ==
  [i \in 1..Len(g.inputs[n]) |->
     LET slot == g.inputs[n][i]
     IN IF slot.exists /\ slot.src # Null /\ g.op[slot.src] = type
        THEN slot.src ELSE Null]

EdgeBefore(e, f) == e.dst < f.dst \/ (e.dst = f.dst /\ e.dstArg < f.dstArg)

RECURSIVE SortEdges(_)
SortEdges(es) ==
  IF es = {} THEN <<>>
  ELSE LET e == CHOOSE x \in es : \A y \in es \ {x} : EdgeBefore(x, y)
       IN <<e.dst>> \o SortEdges(es \ {e})

RECURSIVE ChildrenFrom(_, _, _, _)
ChildrenFrom(g, n, type, o) ==
  IF o > g.nout[n] THEN <<>>
  ELSE SortEdges({e \in OutputEdges(g, n) : e.srcArg = o /\ g.op[e.dst] = type})
       \o ChildrenFrom(g, n, type, o + 1)

(* graph_utils::FindChildrenByType: the consumers of that type, ordered by  *)
(* output slot; the edges of one output come in the order of the edge set, *)
(* by consumer index and then by its input slot                            *)
FindChildrenByType(g, n, type) == ChildrenFrom(g, n, type, 1)

(* optimizer_utils::CheckOutputEdges: every output has exactly that many consuming edges *)
CheckOutputEdges(g, n, expected) ==
  \A o \in 1..g.nout[n] :
    Cardinality({e \in OutputEdges(g, n) : e.srcArg = o}) = expected

(* QDQ::IsQDQPairSupported: scale and zero point of the pair are compatible *)
IsQDQPairSupported(g, q, dq) == g.qparams[q] = g.qparams[dq]

(* InputDefs()[0]->TypeAsProto()->tensor_type().elem_type() of a DQ node,  *)
(* OutputDefs()[0]->... of a Q node                                        *)
ElemType(g, n) == g.elem_type[n]

----------------------------------------------------------------------------
(* CheckQDQNodes without the fan-out test *)
CheckQDQNodes_NoFanout(g, n, dq, q, num) ==
  LET k == IF num = DeriveCount THEN NumActualInputs(g, n) ELSE num
  IN /\ k = Len(dq)
     /\ g.nout[n] = Len(q)

(* CheckQDQNodes without the comparison of the Q count with the output count *)
CheckQDQNodes_NoOutputCount(g, n, dq, q, num) ==
  LET k == IF num = DeriveCount THEN NumActualInputs(g, n) ELSE num
  IN /\ k = Len(dq)
     /\ CheckOutputEdges(g, n, Len(q))

(* BaseSelector::CheckQDQNodes *)
CheckQDQNodes(g, n, dq, q, num) ==
  LET k == IF num = DeriveCount THEN NumActualInputs(g, n) ELSE num
  IN /\ k = Len(dq)
     /\ g.nout[n] = Len(q)
     /\ CheckOutputEdges(g, n, Len(q))

(* What a Check call does: the illegal read it made, if any, and the values *)
(* it can return.                                                           *)
Returns(b) == [ub |-> "none", rets |-> {IF b THEN "true" ELSE "false"}]
NullRead == [ub |-> "null", rets |-> {"fault"}]
RangeRead == [ub |-> "range", rets |-> {"fault", "true", "false"}]

(* reading nodes[i]-> : past the end, through null, or fine *)
Access(nodes, i) ==
  IF i > Len(nodes) THEN "range" ELSE IF nodes[i] = Null THEN "null" ELSE "ok"
Illegal(kind) == IF kind = "null" THEN NullRead ELSE RangeRead

DropDQDNodesSelector_Check(g, n, dq, q) ==
  IF ~CheckQDQNodes(g, n, dq, q, 1) THEN Returns(FALSE)
  ELSE IF Access(dq, 1) # "ok" THEN Illegal(Access(dq, 1))
  ELSE IF Access(q, 1) # "ok" THEN Illegal(Access(q, 1))
  ELSE Returns(IsQDQPairSupported(g, q[1], dq[1]))

UnarySelector_Check(g, n, dq, q, int8_allowed) ==
  IF ~CheckQDQNodes(g, n, dq, q, 1) THEN Returns(FALSE)
  ELSE IF Access(dq, 1) # "ok" THEN Illegal(Access(dq, 1))
  ELSE IF Access(q, 1) # "ok" THEN Illegal(Access(q, 1))
  ELSE LET dt_input == ElemType(g, dq[1])
           dt_output == ElemType(g, q[1])
       IN Returns(/\ (dt_input = UINT8 \/ (int8_allowed /\ dt_input = INT8))
                  /\ (dt_output = UINT8 \/ (int8_allowed /\ dt_output = INT8)))

BinarySelector_Check(g, n, dq, q) ==
  IF ~CheckQDQNodes(g, n, dq, q, DeriveCount) THEN Returns(FALSE)
  ELSE IF Access(dq, 1) # "ok" THEN Illegal(Access(dq, 1))
  ELSE IF Access(dq, 2) # "ok" THEN Illegal(Access(dq, 2))
  ELSE IF Access(q, 1) # "ok" THEN Illegal(Access(q, 1))
  ELSE LET dt_input_1 == ElemType(g, dq[1])
           dt_input_2 == ElemType(g, dq[2])
           dt_output == ElemType(g, q[1])
       IN Returns(dt_input_1 = dt_input_2 /\ dt_input_1 = dt_output)

(* the loop over dq_idx: "done", "mismatch" (return false), or the illegal read *)
RECURSIVE VariadicLoop(_, _, _, _)
VariadicLoop(g, dq, dt_input, dq_idx) ==
  IF dq_idx > Len(dq) THEN "done"
  ELSE IF dq[dq_idx] = Null THEN "null"
  ELSE IF dt_input # ElemType(g, dq[dq_idx]) THEN "mismatch"
  ELSE VariadicLoop(g, dq, dt_input, dq_idx + 1)

(* VariadicSelector::Check without the comparison with the Q output type *)
VariadicSelector_Check_NoOutputType(g, n, dq, q) ==
  IF ~CheckQDQNodes(g, n, dq, q, DeriveCount) THEN Returns(FALSE)
  ELSE IF Access(dq, 1) # "ok" THEN Illegal(Access(dq, 1))
  ELSE LET dt_input == ElemType(g, dq[1])
           loop == VariadicLoop(g, dq, dt_input, 2)
       IN IF loop = "null" THEN NullRead
          ELSE IF loop = "mismatch" THEN Returns(FALSE)
          ELSE Returns(TRUE)

VariadicSelector_Check(g, n, dq, q) ==
  IF ~CheckQDQNodes(g, n, dq, q, DeriveCount) THEN Returns(FALSE)
  ELSE IF Access(dq, 1) # "ok" THEN Illegal(Access(dq, 1))
  ELSE LET dt_input == ElemType(g, dq[1])
           loop == VariadicLoop(g, dq, dt_input, 2)
       IN IF loop = "null" THEN NullRead
          ELSE IF loop = "mismatch" THEN Returns(FALSE)
          ELSE IF Access(q, 1) # "ok" THEN Illegal(Access(q, 1))
          ELSE Returns(dt_input = ElemType(g, q[1]))

ConvSelector_Check(g, n, dq, q) ==
  IF ~CheckQDQNodes(g, n, dq, q, DeriveCount) THEN Returns(FALSE)
  ELSE IF Access(dq, 1) # "ok" THEN Illegal(Access(dq, 1))
  ELSE IF Access(q, 1) # "ok" THEN Illegal(Access(q, 1))
  ELSE LET dt_input == ElemType(g, dq[1])
           dt_output == ElemType(g, q[1])
       IN IF dt_input # UINT8 \/ dt_output # UINT8 THEN Returns(FALSE)
          ELSE IF Len(dq) < 3 THEN Returns(TRUE)
          ELSE IF Access(dq, 3) # "ok" THEN Illegal(Access(dq, 3))
          ELSE Returns(ElemType(g, dq[3]) = INT32)

(* MatMulSelector::Check applying the structural check in both modes *)
MatMulSelector_Check_AlwaysStructural(g, n, dq, q) ==
  IF Len(dq) # 2 THEN Returns(FALSE)
  ELSE IF ~CheckQDQNodes(g, n, dq, q, DeriveCount) THEN Returns(FALSE)
  ELSE IF Access(q, 1) # "ok" THEN Illegal(Access(q, 1))
  ELSE IF ElemType(g, q[1]) # UINT8 THEN Returns(FALSE)
  ELSE IF Access(dq, 1) # "ok" THEN Illegal(Access(dq, 1))
  ELSE Returns(ElemType(g, dq[1]) = UINT8)

MatMulSelector_Check(g, n, dq, q) ==
  IF Len(dq) # 2 THEN Returns(FALSE)
  ELSE LET qlinear == q # <<>>
       IN IF qlinear /\ ~CheckQDQNodes(g, n, dq, q, DeriveCount) THEN Returns(FALSE)
          ELSE IF qlinear /\ Access(q, 1) # "ok" THEN Illegal(Access(q, 1))
          ELSE IF qlinear /\ ElemType(g, q[1]) # UINT8 THEN Returns(FALSE)
          ELSE IF Access(dq, 1) # "ok" THEN Illegal(Access(dq, 1))
          ELSE Returns(ElemType(g, dq[1]) = UINT8)

(* The selector objects; UnarySelector carries int8_allowed_. *)
Selectors == {"DropDQD", "Unary", "UnaryInt8", "Binary", "Variadic", "Conv", "MatMul"}

(* the virtual Check *)
Check(s, g, n, dq, q) ==
  CASE s = "DropDQD" -> DropDQDNodesSelector_Check(g, n, dq, q)
    [] s = "Unary" -> UnarySelector_Check(g, n, dq, q, FALSE)
    [] s = "UnaryInt8" -> UnarySelector_Check(g, n, dq, q, TRUE)
    [] s = "Binary" -> BinarySelector_Check(g, n, dq, q)
    [] s = "Variadic" -> VariadicSelector_Check(g, n, dq, q)
    [] s = "Conv" -> ConvSelector_Check(g, n, dq, q)
    [] OTHER -> MatMulSelector_Check(g, n, dq, q)

(* std::vector::resize *)
Resize(seq, k) == [i \in 1..k |-> IF i <= Len(seq) THEN seq[i] ELSE Null]

VariadicSelector_UpdateBuilder(builder) ==
  [builder EXCEPT !.num_input_defs = VariadicInputDefs]

(* ConvSelector::UpdateBuilder without the resize *)
ConvSelector_UpdateBuilder_NoResize(builder) == builder

ConvSelector_UpdateBuilder(builder) ==
  [builder EXCEPT !.input_nodes = Resize(builder.input_nodes, ConvInputs)]

(* the virtual UpdateBuilder; the default does nothing *)
UpdateBuilder(s, builder) ==
  CASE s = "Variadic" -> VariadicSelector_UpdateBuilder(builder)
    [] s = "Conv" -> ConvSelector_UpdateBuilder(builder)
    [] OTHER -> builder

(* NodesToOptimizeBuilder::Build *)
Build(builder) ==
  [target |-> builder.target_node,
   inputs |-> builder.input_nodes,
   outputs |-> builder.output_nodes,
   num_input_defs |-> builder.num_input_defs]

(* an empty std::unique_ptr<NodesToOptimize> *)
NoSelection ==
  [target |-> Null, inputs |-> <<>>, outputs |-> <<>>, num_input_defs |-> NoInputDefs]

RECURSIVE DropNull(_)
DropNull(seq) ==
  IF seq = <<>> THEN <<>>
  ELSE IF Head(seq) = Null THEN DropNull(Tail(seq))
  ELSE <<Head(seq)>> \o DropNull(Tail(seq))

(* a builder that skips the null producer entries instead of keeping them *)
StageBuilder_SkipsNull(g, n, dq, q) ==
  [input_nodes |-> DropNull(dq),
   target_node |-> GetNode(g, Index(n)),
   output_nodes |-> [i \in 1..Len(q) |-> GetNode(g, Index(q[i]))],
   num_input_defs |-> NoInputDefs]

(* the builder as Select stages it *)
StageBuilder(g, n, dq, q) ==
  [input_nodes |-> [i \in 1..Len(dq) |->
                      IF dq[i] # Null THEN GetNode(g, Index(dq[i])) ELSE Null],
   target_node |-> GetNode(g, Index(n)),
   output_nodes |-> [i \in 1..Len(q) |-> GetNode(g, Index(q[i]))],
   num_input_defs |-> NoInputDefs]

(* number of get_mutable_node calls of a successful Select *)
Resolutions(dq, q) == Cardinality({i \in 1..Len(dq) : dq[i] # Null}) + 1 + Len(q)

----------------------------------------------------------------------------
Init ==
  /\ graph \in Graphs
  /\ WellFormed(graph)
  /\ selection = NoSelection
  /\ op = "none"
  /\ selector = "none"
  /\ cand = Null
  /\ num_dq_inputs = DeriveCount
  /\ dq_nodes = <<>>
  /\ q_nodes = <<>>
  /\ ret = "none"
  /\ ub = "none"
  /\ resolved = 0

(* Select building and storing the record before looking at Check's result *)
Select_BuildsFirst(s, node) ==
  /\ ret # "fault"
  /\ LET dq == FindParentsByType(graph, node, DQOpName)
         q == FindChildrenByType(graph, node, QOpName)
         c == Check(s, graph, node, dq, q)
     IN /\ dq_nodes' = dq
        /\ q_nodes' = q
        /\ ub' = c.ub
        /\ \E r \in c.rets :
             /\ ret' = r
             /\ selection' = Build(UpdateBuilder(s, StageBuilder(graph, node, dq, q)))
             /\ resolved' = Resolutions(dq, q)
  /\ op' = "Select"
  /\ selector' = s
  /\ cand' = node
  /\ UNCHANGED <<graph, num_dq_inputs>>

(* BaseSelector::Select *)
Select(s, node) ==
  /\ ret # "fault"
  /\ LET dq == FindParentsByType(graph, node, DQOpName)
         q == FindChildrenByType(graph, node, QOpName)
         c == Check(s, graph, node, dq, q)
     IN /\ dq_nodes' = dq
        /\ q_nodes' = q
        /\ ub' = c.ub
        /\ \E r \in c.rets :
             /\ ret' = r
             /\ IF r = "true"
                THEN /\ selection' = Build(UpdateBuilder(s, StageBuilder(graph, node, dq, q)))
                     /\ resolved' = Resolutions(dq, q)
                ELSE /\ selection' = selection
                     /\ resolved' = 0
  /\ op' = "Select"
  /\ selector' = s
  /\ cand' = node
  /\ UNCHANGED <<graph, num_dq_inputs>>

(* a direct call of BaseSelector::CheckQDQNodes on the lists Select would pass *)
CallCheckQDQNodes(node, num) ==
  /\ ret # "fault"
  /\ LET dq == FindParentsByType(graph, node, DQOpName)
         q == FindChildrenByType(graph, node, QOpName)
     IN /\ dq_nodes' = dq
        /\ q_nodes' = q
        /\ ret' = IF CheckQDQNodes(graph, node, dq, q, num) THEN "true" ELSE "false"
  /\ op' = "CheckQDQNodes"
  /\ selector' = "none"
  /\ cand' = node
  /\ num_dq_inputs' = num
  /\ ub' = "none"
  /\ resolved' = 0
  /\ UNCHANGED <<graph, selection>>

Next == \E s \in Selectors, node \in Candidates : Select(s, node)

Spec == Init /\ [][Next]_vars

NextCheck ==
  \E node \in Candidates, num \in {DeriveCount} \cup (0..MaxInputs) :
    CallCheckQDQNodes(node, num)

SpecCheck == Init /\ [][NextCheck]_vars

----------------------------------------------------------------------------
(* Vocabulary of the properties, stated on the graph itself. *)

(* number of inputs of node n that are present *)
PresentInputs(n) ==
  Cardinality({i \in 1..Len(graph.inputs[n]) : graph.inputs[n][i].exists})

(* number of consuming edges of output o of node n *)
Fanout(n, o) ==
  Cardinality({p \in NodeIds \X (1..MaxInputs) :
                 /\ p[2] <= Len(graph.inputs[p[1]])
                 /\ graph.inputs[p[1]][p[2]].exists
                 /\ graph.inputs[p[1]][p[2]].src = n
                 /\ graph.inputs[p[1]][p[2]].srcArg = o})

(* the output positions of node n that Q node q consumes *)
PositionsOf(q, n) ==
  {graph.inputs[q][i].srcArg :
     i \in {j \in 1..Len(graph.inputs[q]) :
              graph.inputs[q][j].exists /\ graph.inputs[q][j].src = n}}

(* number of entries of q_nodes found for output position o of node n *)
QFoundAt(n, o) ==
  Cardinality({j \in 1..Len(q_nodes) : o \in PositionsOf(q_nodes[j], n)})

ExpectedDQCount(n, num) == IF num = DeriveCount THEN PresentInputs(n) ELSE num

(* the structural rule as the code applies it: the fan-out test is on the  *)
(* outputs of the target node, against the total number of Q nodes found   *)
Structure(n, num) ==
  /\ Len(dq_nodes) = ExpectedDQCount(n, num)
  /\ Len(q_nodes) = graph.nout[n]
  /\ \A o \in 1..graph.nout[n] : Fanout(n, o) = Len(q_nodes)

(* the structural rule with the fan-out test per matched Q node *)
StructurePerQ(n, num) ==
  /\ Len(dq_nodes) = ExpectedDQCount(n, num)
  /\ Len(q_nodes) = graph.nout[n]
  /\ \A j \in 1..Len(q_nodes) : \A o \in PositionsOf(q_nodes[j], n) :
       Fanout(n, o) = QFoundAt(n, o)

(* entry i of the producer list is a DQ node reading that element type *)
DQTypeIs(i, t) ==
  /\ i <= Len(dq_nodes)
  /\ dq_nodes[i] # Null
  /\ graph.elem_type[dq_nodes[i]] = t

(* the first Q node found writes that element type *)
QTypeIs(t) == q_nodes # <<>> /\ graph.elem_type[q_nodes[1]] = t

Selected(s) == op = "Select" /\ selector = s /\ ret = "true"
Ran(s) == op = "Select" /\ selector = s

----------------------------------------------------------------------------
C2_FailureChangesNothing ==
  [][/\ (op' = "Select" /\ ret' = "false") =>
          (selection' = selection /\ graph' = graph /\ resolved' = 0)
     /\ resolved' > 0 => ret' = "true"
     /\ graph' = graph]_vars

(* a failed Select after a successful one: the earlier record is still there *)
C2_Witness == op = "Select" /\ ret = "false" /\ selection # NoSelection

(* C3, as claimed: whenever Select succeeds, the number of Q consumers      *)
(* found (the output slots of the record) equals the target's output count. *)
C3_QCountIsOutputCount ==
  (op = "Select" /\ ret = "true") =>
    (Len(q_nodes) = graph.nout[cand] /\ Len(selection.outputs) = graph.nout[cand])

(* C3, amended: whenever Select succeeds, the number of Q consumers found   *)
(* equals the target's output count, except for a matrix-multiply selection *)
(* in integer-to-float mode, whose record has no output slot.               *)
C3_QCountExceptMatMulFloat ==
  (op = "Select" /\ ret = "true") =>
    \/ selector = "MatMul" /\ q_nodes = <<>> /\ selection.outputs = <<>>
    \/ Len(q_nodes) = graph.nout[cand] /\ Len(selection.outputs) = graph.nout[cand]

(* a matrix-multiply selection in linear mode *)
C3_Witness ==
  /\ Selected("MatMul")
  /\ Len(selection.outputs) = 1
  /\ graph.nout[cand] = 1

C6_Variadic ==
  (Ran("Variadic") /\ Len(dq_nodes) >= 1) =>
    /\ ret = "true" <=>
         /\ Structure(cand, DeriveCount)
         /\ \E t \in {UINT8, INT8, INT32} :
              /\ \A i \in 1..Len(dq_nodes) : DQTypeIs(i, t)
              /\ QTypeIs(t)
    /\ ret = "true" =>
         /\ selection.num_input_defs = 1
         /\ selection.inputs = dq_nodes

(* three producers matched, one logical input def reported *)
C6_Witness ==
  /\ Selected("Variadic")
  /\ Len(dq_nodes) = 3
  /\ Len(selection.inputs) = 3
  /\ selection.num_input_defs = 1

(* C7: binary selection succeeds iff the structural check with derived      *)
(* count holds and the two DQ input types and the Q output type are all the *)
(* same; a target whose derived DQ count is not 2 is never selected.        *)
C7_Binary ==
  Ran("Binary") =>
    /\ ret = "true" <=>
         /\ Structure(cand, DeriveCount)
         /\ \E t \in {UINT8, INT8, INT32} :
              DQTypeIs(1, t) /\ DQTypeIs(2, t) /\ QTypeIs(t)
    /\ PresentInputs(cand) # 2 => ret # "true"

(* the nodes of a selection record *)
NodesOf(sel) ==
  ({sel.target} \cup {sel.inputs[i] : i \in 1..Len(sel.inputs)}
     \cup {sel.outputs[i] : i \in 1..Len(sel.outputs)}) \ {Null}

(* C8: two successful selections on distinct candidates of the same graph   *)
(* have no node in common.                                                  *)
C8_NonOverlapping ==
  [][(/\ op = "Select" /\ ret = "true"
      /\ op' = "Select" /\ ret' = "true"
      /\ cand' # cand) =>
       NodesOf(selection) \cap NodesOf(selection') = {}]_vars

(* C9: Check always ends by returning a boolean: it reads no list position  *)
(* out of range and reads through no null slot.                             *)
C9_NoIllegalRead ==
  op = "Select" => (ub = "none" /\ ret \in {"true", "false"})

(* C10: after a successful Select the record's target is the candidate, its *)
(* input slots are the producers the query returned, position by position   *)
(* (a null entry stays null; convolution pads to 3 slots), and its output   *)
(* slots are the consumers the query returned; so the record is a function  *)
(* of the graph, the selector and the candidate.                            *)
C10_Layout ==
  (op = "Select" /\ ret = "true") =>
    /\ dq_nodes = FindParentsByType(graph, cand, DQOpName)
    /\ q_nodes = FindChildrenByType(graph, cand, QOpName)
    /\ selection.target = cand
    /\ selection.outputs = q_nodes
    /\ selector # "Conv" => selection.inputs = dq_nodes
    /\ selector = "Conv" =>
         \A i \in 1..Len(selection.inputs) :
           selection.inputs[i] = IF i <= Len(dq_nodes) THEN dq_nodes[i] ELSE Null

(* a record that keeps a null producer entry at its position *)
C10_Witness ==
  /\ op = "Select" /\ ret = "true" /\ selector # "Conv"
  /\ Len(dq_nodes) = 2
  /\ dq_nodes[1] # Null /\ dq_nodes[2] = Null
  /\ selection.inputs[2] = Null
  /\ selection.inputs[1] = dq_nodes[1]

====
